---- MODULE Spec2Model ----
(***************************************************************************)
(* log-to-gor: conversion of Apache Combined Log Format lines into the     *)
(* goreplay .gor format (src/log-to-gor.go, processLogs).                  *)
(*                                                                         *)
(* Text is modelled as TLA+ strings, character by character: the two       *)
(* regular expressions, time.Parse, Time.UnixNano (int64, wrapping),       *)
(* hex.EncodeToString and the fmt verbs are computed as the Go code        *)
(* computes them.  One step of the model is one pass through the body of   *)
(* the scanner loop, or the return after it.                               *)
(***************************************************************************)
EXTENDS Integers, Sequences, FiniteSets, TLC

(***************************************************************************)
(* Characters and character classes (Go regexp syntax, ASCII).             *)
(***************************************************************************)
Ch(s, i) == SubSeq(s, i, i)

DigitChars == {"0", "1", "2", "3", "4", "5", "6", "7", "8", "9"}

UpperChars ==
    {"A", "B", "C", "D", "E", "F", "G", "H", "I", "J", "K", "L", "M",
     "N", "O", "P", "Q", "R", "S", "T", "U", "V", "W", "X", "Y", "Z"}

LowerChars ==
    {"a", "b", "c", "d", "e", "f", "g", "h", "i", "j", "k", "l", "m",
     "n", "o", "p", "q", "r", "s", "t", "u", "v", "w", "x", "y", "z"}

\* \w
WordChars == DigitChars \cup UpperChars \cup LowerChars \cup {"_"}

\* the white space \S excludes
SpaceChars == {" ", "\t", "\n", "\f", "\r"}

SetMin(S) == CHOOSE x \in S : \A y \in S : x <= y

\* value of a decimal digit character
DigitVal(c) == CHOOSE v \in 0..9 : Ch("0123456789", v + 1) = c

\* s[from..] starts with the literal lit
HasPrefixAt(s, from, lit) ==
    /\ from + Len(lit) - 1 <= Len(s)
    /\ SubSeq(s, from, from + Len(lit) - 1) = lit

\* end of the longest run of characters satisfying the class, starting at
\* from (from - 1 when the run is empty): a greedy x+ or x*
RECURSIVE RunEnd(_, _, _)
RunEnd(s, from, Class) ==
    IF from <= Len(s) /\ Ch(s, from) \in Class
    THEN RunEnd(s, from + 1, Class)
    ELSE from - 1

\* the same for a negated class [^...]
RECURSIVE RunEndNot(_, _, _)
RunEndNot(s, from, Excluded) ==
    IF from <= Len(s) /\ Ch(s, from) \notin Excluded
    THEN RunEndNot(s, from + 1, Excluded)
    ELSE from - 1

(***************************************************************************)
(* The request-line pattern of src/log-to-gor.go:88                        *)
(*   "(GET|POST|PUT|DELETE|HEAD|OPTIONS|PATCH) ([^ ]+) ([^"]+)"            *)
(***************************************************************************)
\* the alternation, in the order the pattern lists it
Methods == <<"GET", "POST", "PUT", "DELETE", "HEAD", "OPTIONS", "PATCH">>

\* A faulty variant, for C3: any upper-case word is taken as the method.
requestReAtAnyMethod(line, i) ==
    IF Ch(line, i) # "\"" THEN <<>>
    ELSE LET me == RunEnd(line, i + 1, UpperChars)
             p  == me + 2
             pe == RunEndNot(line, p, {" "})
             q  == pe + 2
             qe == RunEndNot(line, q, {"\""})
         IN IF /\ me >= i + 1
               /\ HasPrefixAt(line, me + 1, " ")
               /\ pe >= p
               /\ pe + 1 <= Len(line)
               /\ qe >= q
               /\ qe + 1 <= Len(line)
            THEN << SubSeq(line, i, qe + 1), SubSeq(line, i + 1, me),
                    SubSeq(line, p, pe), SubSeq(line, q, qe) >>
            ELSE <<>>

\* The match that starts at position i, as <<whole, m1, m2, m3>>, or <<>>.
\* After the opening quote and the method, [^ ]+ is the run up to the next
\* space and [^"]+ the run up to the next quote: neither class can cross
\* its own terminator, so the greedy match is the only one.
requestReAt(line, i) ==
    IF Ch(line, i) # "\"" THEN <<>>
    ELSE LET ks == {k \in 1..Len(Methods) :
                        HasPrefixAt(line, i + 1, Methods[k] \o " ")}
         IN IF ks = {} THEN <<>>
            ELSE LET m  == Methods[SetMin(ks)]
                     p  == i + 1 + Len(m) + 1
                     pe == RunEndNot(line, p, {" "})
                     q  == pe + 2
                     qe == RunEndNot(line, q, {"\""})
                 IN IF /\ pe >= p
                       /\ pe + 1 <= Len(line)
                       /\ qe >= q
                       /\ qe + 1 <= Len(line)
                    THEN << SubSeq(line, i, qe + 1), m,
                            SubSeq(line, p, pe), SubSeq(line, q, qe) >>
                    ELSE <<>>

\* re.FindStringSubmatch(line): the leftmost match, <<>> (nil) when none
RECURSIVE requestReFrom(_, _)
requestReFrom(line, i) ==
    IF i > Len(line) THEN <<>>
    ELSE LET m == requestReAt(line, i)
         IN IF m # <<>> THEN m ELSE requestReFrom(line, i + 1)

requestRe(line) == requestReFrom(line, 1)

(***************************************************************************)
(* The timestamp pattern of src/log-to-gor.go:96                           *)
(*   \[(\d{2}/\w{3}/\d{4}:\d{2}:\d{2}:\d{2}) [^\]]+\]                      *)
(***************************************************************************)
\* the character class of each of the 20 characters of group 1; a
\* one-element set is a literal
TimeShape ==
    << DigitChars, DigitChars, {"/"}, WordChars, WordChars, WordChars, {"/"},
       DigitChars, DigitChars, DigitChars, DigitChars, {":"},
       DigitChars, DigitChars, {":"}, DigitChars, DigitChars, {":"},
       DigitChars, DigitChars >>

timeReAt(line, i) ==
    IF /\ Ch(line, i) = "["
       /\ i + Len(TimeShape) + 1 <= Len(line)
       /\ \A k \in 1..Len(TimeShape) : Ch(line, i + k) \in TimeShape[k]
       /\ Ch(line, i + Len(TimeShape) + 1) = " "
    THEN LET o  == i + Len(TimeShape) + 2
             oe == RunEndNot(line, o, {"]"})
         IN IF oe >= o /\ oe + 1 <= Len(line)
            THEN << SubSeq(line, i, oe + 1),
                    SubSeq(line, i + 1, i + Len(TimeShape)) >>
            ELSE <<>>
    ELSE <<>>

\* timeRe.FindStringSubmatch(line)
RECURSIVE timeReFrom(_, _)
timeReFrom(line, i) ==
    IF i > Len(line) THEN <<>>
    ELSE LET m == timeReAt(line, i)
         IN IF m # <<>> THEN m ELSE timeReFrom(line, i + 1)

timeRe(line) == timeReFrom(line, 1)

(***************************************************************************)
(* time.Parse("02/Jan/2006:15:04:05", value), src/log-to-gor.go:99         *)
(***************************************************************************)
shortMonthNames ==
    << "Jan", "Feb", "Mar", "Apr", "May", "Jun",
       "Jul", "Aug", "Sep", "Oct", "Nov", "Dec" >>

\* ASCII lower case of a letter, any other character unchanged
ToLower(c) ==
    IF c \in UpperChars
    THEN LET k == CHOOSE j \in 1..26 :
                     Ch("ABCDEFGHIJKLMNOPQRSTUVWXYZ", j) = c
         IN Ch("abcdefghijklmnopqrstuvwxyz", k)
    ELSE c

\* time's match(s1, s2): equal, or equal letters up to case
MatchFold(s1, s2) ==
    /\ Len(s1) = Len(s2)
    /\ \A k \in 1..Len(s1) :
          \/ Ch(s1, k) = Ch(s2, k)
          \/ /\ ToLower(Ch(s1, k)) = ToLower(Ch(s2, k))
             /\ ToLower(Ch(s1, k)) \in LowerChars

\* lookup(shortMonthNames, val): the month number, 0 for "bad month"
LookupMonth(val) ==
    LET ks == {k \in 1..12 : MatchFold(val, shortMonthNames[k])}
    IN IF ks = {} THEN 0 ELSE SetMin(ks)

\* decimal value of the digit string s[from..to]
RECURSIVE Atoi(_, _, _)
Atoi(s, from, to) ==
    IF to < from THEN 0
    ELSE 10 * Atoi(s, from, to - 1) + DigitVal(Ch(s, to))

isLeap(year) == year % 4 = 0 /\ (year % 100 # 0 \/ year % 400 = 0)

daysIn(month, year) ==
    IF month = 2 THEN (IF isLeap(year) THEN 29 ELSE 28)
    ELSE IF month \in {4, 6, 9, 11} THEN 30 ELSE 31

\* The parse of a value that has the shape of group 1 of the timestamp
\* pattern (the only values line 99 passes): ok is err == nil.  The hour,
\* minute and second are range-checked as they are read, the day once the
\* month and the year are known.
timeParse(value) ==
    LET day   == Atoi(value, 1, 2)
        month == LookupMonth(SubSeq(value, 4, 6))
        year  == Atoi(value, 8, 11)
        hour  == Atoi(value, 13, 14)
        min   == Atoi(value, 16, 17)
        sec   == Atoi(value, 19, 20)
    IN [ ok |-> /\ month # 0
                /\ hour < 24
                /\ min < 60
                /\ sec < 60
                /\ day >= 1
                /\ day <= daysIn(month, year),
         year |-> year, month |-> month, day |-> day,
         hour |-> hour, min |-> min, sec |-> sec ]

(***************************************************************************)
(* Time.UnixNano, src/log-to-gor.go:101: seconds since the Unix epoch of   *)
(* the parsed date, read as UTC, times 1e9 in int64 arithmetic, which      *)
(* wraps modulo 2^64.  Numbers beyond the model checker's integers are     *)
(* sequences of limbs in base 10000, least significant first, without      *)
(* leading zero limbs; an int64 is [neg, mag].                             *)
(***************************************************************************)
RECURSIVE Norm(_)
Norm(a) ==
    IF a # <<>> /\ a[Len(a)] = 0 THEN Norm(SubSeq(a, 1, Len(a) - 1)) ELSE a

RECURSIVE FromNat(_)
FromNat(n) == IF n = 0 THEN <<>> ELSE <<n % 10000>> \o FromNat(n \div 10000)

Limb(a, i) == IF i <= Len(a) THEN a[i] ELSE 0

\* a * m + carry, for 0 <= m <= 100000
RECURSIVE MulSmall(_, _, _)
MulSmall(a, m, carry) ==
    IF a = <<>> THEN FromNat(carry)
    ELSE LET v == a[1] * m + carry
         IN <<v % 10000>> \o MulSmall(Tail(a), m, v \div 10000)

RECURSIVE AddFrom(_, _, _, _)
AddFrom(a, b, i, carry) ==
    IF i > Len(a) /\ i > Len(b)
    THEN FromNat(carry)
    ELSE LET v == Limb(a, i) + Limb(b, i) + carry
         IN <<v % 10000>> \o AddFrom(a, b, i + 1, v \div 10000)

Add(a, b) == Norm(AddFrom(a, b, 1, 0))

\* a - b, for a >= b
RECURSIVE SubFrom(_, _, _, _)
SubFrom(a, b, i, borrow) ==
    IF i > Len(a) THEN <<>>
    ELSE LET v == a[i] - Limb(b, i) - borrow
         IN IF v < 0
            THEN <<v + 10000>> \o SubFrom(a, b, i + 1, 1)
            ELSE <<v>> \o SubFrom(a, b, i + 1, 0)

Sub(a, b) == Norm(SubFrom(a, b, 1, 0))

\* a < b
RECURSIVE LessFrom(_, _, _)
LessFrom(a, b, i) ==
    IF i = 0 THEN FALSE
    ELSE IF a[i] # b[i] THEN a[i] < b[i]
    ELSE LessFrom(a, b, i - 1)

Less(a, b) ==
    IF Len(a) # Len(b) THEN Len(a) < Len(b) ELSE LessFrom(a, b, Len(a))

\* 2^63 = 9223372036854775808 and 2^64 = 18446744073709551616
Two63 == <<5808, 5477, 368, 3372, 922>>
Two64 == <<1616, 955, 737, 6744, 1844>>

RECURSIVE Mod64(_)
Mod64(a) == IF Less(a, Two64) THEN a ELSE Mod64(Sub(a, Two64))

\* the int64 a mathematical integer wraps to
WrapInt64(neg, mag) ==
    LET m == Mod64(mag)
    IN IF ~neg
       THEN IF Less(m, Two63) THEN [neg |-> FALSE, mag |-> m]
            ELSE [neg |-> TRUE, mag |-> Sub(Two64, m)]
       ELSE IF Less(Two63, m) THEN [neg |-> FALSE, mag |-> Sub(Two64, m)]
            ELSE [neg |-> m # <<>>, mag |-> m]

Int64Zero == [neg |-> FALSE, mag |-> <<>>]

\* leap days before 1 January of the year, counted from year 1
LeapsBefore(year) ==
    ((year - 1) \div 4) - ((year - 1) \div 100) + ((year - 1) \div 400)

\* days from 1 January 1970 to 1 January of the year
DaysSinceEpoch(year) ==
    365 * (year - 1970) + LeapsBefore(year) - LeapsBefore(1970)

daysBefore == <<0, 31, 59, 90, 120, 151, 181, 212, 243, 273, 304, 334, 365>>

\* days from 1 January 1970 to the date (negative before 1970)
UnixDays(t) ==
    DaysSinceEpoch(t.year) + daysBefore[t.month]
      + (IF isLeap(t.year) /\ t.month >= 3 THEN 1 ELSE 0) + (t.day - 1)

Abs(n) == IF n < 0 THEN -n ELSE n

\* t.UnixNano() of a parsed time
UnixNano(t) ==
    LET d     == UnixDays(t)
        sod   == t.hour * 3600 + t.min * 60 + t.sec
        \* |seconds|: d * 86400 + sod, or -(|d| * 86400 - sod)
        whole == MulSmall(FromNat(Abs(d)), 86400, 0)
        secs  == IF d >= 0 THEN Add(whole, FromNat(sod))
                           ELSE Sub(whole, FromNat(sod))
        \* * 1e9 = * 10 * 10000 * 10000
        nanos == IF secs = <<>> THEN <<>>
                 ELSE <<0, 0>> \o MulSmall(secs, 10, 0)
    IN WrapInt64(d < 0, Norm(nanos))

(***************************************************************************)
(* fmt's %d of an int64                                                    *)
(***************************************************************************)
DigitChar(v) == Ch("0123456789", v + 1)

RECURSIVE FormatNat(_)
FormatNat(n) ==
    IF n < 10 THEN DigitChar(n)
    ELSE FormatNat(n \div 10) \o DigitChar(n % 10)

\* a limb below the most significant one: four digits
FormatLimb(v) ==
    DigitChar(v \div 1000) \o DigitChar((v \div 100) % 10)
      \o DigitChar((v \div 10) % 10) \o DigitChar(v % 10)

RECURSIVE FormatLimbs(_)
FormatLimbs(a) ==
    IF Len(a) = 1 THEN FormatNat(a[1])
    ELSE FormatLimbs(SubSeq(a, 2, Len(a))) \o FormatLimb(a[1])

FormatInt64(x) ==
    IF x.mag = <<>> THEN "0"
    ELSE (IF x.neg THEN "-" ELSE "") \o FormatLimbs(x.mag)

(***************************************************************************)
(* generateRequestID, src/log-to-gor.go:134-140                            *)
(***************************************************************************)
hextable == "0123456789abcdef"

\* hex.EncodeToString
RECURSIVE EncodeToString(_)
EncodeToString(bytes) ==
    IF bytes = <<>> THEN ""
    ELSE Ch(hextable, (bytes[1] \div 16) + 1)
           \o Ch(hextable, (bytes[1] % 16) + 1)
           \o EncodeToString(Tail(bytes))


\* what rand.Read can fill the 12 bytes with; the model draws from two
RandomBytes ==
    { <<0, 1, 2, 3, 4, 5, 6, 7, 8, 9, 10, 11>>,
      <<255, 171, 16, 9, 200, 77, 0, 128, 15, 240, 33, 254>> }

generateRequestID(bytes) == EncodeToString(bytes)

(***************************************************************************)
(* The access-log parser of src/log-to-gor.go:53 and 75-79, from the        *)
(* imported package github.com/nekrassov01/access-log-parser (line 15).    *)
(* Its Apache common/combined pattern asks for the fields of               *)
(* CombinedLogFormat (line 22) up to %b:                                   *)
(*   ^\S+ \S+ [\S ]+ \[[^\]]+\] "[A-Z]+ [^ "]+ HTTP/[0-9.]+" [0-9]{3}      *)
(*   ([0-9]+|-)                                                            *)
(* ApacheCLFMatched is "err == nil, no entry.Errors, entry.Matched > 0".   *)
(***************************************************************************)
\* the pattern from the bracket at position b on
ApacheCLFFromBracket(line, b) ==
    LET ds == b + 1
        de == RunEndNot(line, ds, {"]"})
        ms == de + 4
        me == RunEnd(line, ms, UpperChars)
        rs == me + 2
        re == RunEndNot(line, rs, {" ", "\""})
        vs == re + 7
        ve == RunEnd(line, vs, DigitChars \cup {"."})
        ss == ve + 3
    IN /\ Ch(line, b) = "["
       /\ de >= ds
       /\ HasPrefixAt(line, de + 1, "] \"")
       /\ me >= ms
       /\ HasPrefixAt(line, me + 1, " ")
       /\ re >= rs
       /\ HasPrefixAt(line, re + 1, " HTTP/")
       /\ ve >= vs
       /\ HasPrefixAt(line, ve + 1, "\" ")
       /\ ss + 4 <= Len(line)
       /\ \A k \in 0..2 : Ch(line, ss + k) \in DigitChars
       /\ Ch(line, ss + 3) = " "
       /\ Ch(line, ss + 4) \in DigitChars \cup {"-"}

ApacheCLFMatched(line) ==
    LET he == RunEndNot(line, 1, SpaceChars)
        ls == he + 2
        le == RunEndNot(line, ls, SpaceChars)
        us == le + 2
        ue == RunEndNot(line, us, SpaceChars \ {" "})
    IN /\ he >= 1
       /\ HasPrefixAt(line, he + 1, " ")
       /\ le >= ls
       /\ HasPrefixAt(line, le + 1, " ")
       /\ \E k \in (us + 1)..(ue + 1) :
             /\ HasPrefixAt(line, k, " [")
             /\ ApacheCLFFromBracket(line, k + 1)

(***************************************************************************)
(* The input: the lines of the log file, as the web server wrote them.     *)
(* A line is [text, more]: its bytes are text followed by more further     *)
(* bytes, so that a line beyond the scanner's buffer needs no string of    *)
(* that length.                                                            *)
(***************************************************************************)
Fmt2(n) == DigitChar(n \div 10) \o DigitChar(n % 10)

Fmt4(n) == Fmt2(n \div 100) \o Fmt2(n % 100)

\* %t of a date [d, mon, y, h, mi, s, off]
FormatTime(t) ==
    "[" \o Fmt2(t.d) \o "/" \o t.mon \o "/" \o Fmt4(t.y) \o ":" \o Fmt2(t.h)
        \o ":" \o Fmt2(t.mi) \o ":" \o Fmt2(t.s) \o " " \o t.off \o "]"

\* a line in CombinedLogFormat: %h %l %u %t "%r" %>s %b "%{Referer}i"
\* "%{User-Agent}i", with %t and %r given
CombinedLogFormat(time, request) ==
    "127.0.0.1 - - " \o time \o " \"" \o request \o "\" 200 512 \"-\" \"curl/8.0\""

RequestField(r) == r[1] \o " " \o r[2] \o " " \o r[3]

\* the dates of the modelled log: the one of the specification's example,
\* the same under another offset, the one src/test.sh greps for, a leap day
ExampleDate ==
    [d |-> 1, mon |-> "Oct", y |-> 2025, h |-> 12, mi |-> 30, s |-> 11,
     off |-> "+0000"]

OffsetDate == [ExampleDate EXCEPT !.off = "+0530"]

TestDate == [ExampleDate EXCEPT !.d = 2, !.mi = 50]

LeapDate ==
    [d |-> 29, mon |-> "Feb", y |-> 2024, h |-> 23, mi |-> 59, s |-> 59,
     off |-> "-0800"]

\* a date whose nanoseconds since the epoch exceed 2^63 - 1
FarDate ==
    [d |-> 1, mon |-> "Jan", y |-> 2300, h |-> 0, mi |-> 0, s |-> 0,
     off |-> "+0000"]

\* dates of the right shape that are no dates: 31 February, month "Okt"
BadDates ==
    { [ExampleDate EXCEPT !.d = 31, !.mon = "Feb"],
      [ExampleDate EXCEPT !.mon = "Okt"] }

\* a bracketed field the timestamp pattern does not match
OddTime == "[1759321811]"

GetRequest == <<"GET", "/api/v1/users", "HTTP/1.1">>

PostRequest == <<"POST", "/submit?x=1", "HTTP/2.0">>

\* a method outside the pattern's alternation
TraceRequest == <<"TRACE", "/", "HTTP/1.1">>

\* an entry <<date, request>> as the line the server logs for it
LineOf(e) == CombinedLogFormat(FormatTime(e[1]), RequestField(e[2]))

\* well-formed entries: valid date, request line the pattern covers
WellFormedEntries ==
    { <<ExampleDate, GetRequest>>, <<OffsetDate, GetRequest>>,
      <<TestDate, PostRequest>>, <<LeapDate, PostRequest>> }

WellFormedLines == { LineOf(e) : e \in WellFormedEntries }

FarLine == LineOf(<<FarDate, GetRequest>>)

\* entries whose timestamp does not parse or does not match
BadTimeLines ==
    { LineOf(<<t, GetRequest>>) : t \in BadDates }
      \cup { CombinedLogFormat(OddTime, RequestField(PostRequest)) }

\* a request line but no %t field
NoTimeLine ==
    "127.0.0.1 - - \"GET /api/v1/users HTTP/1.1\" 200 512 \"-\" \"curl/8.0\""

TraceLine == LineOf(<<ExampleDate, TraceRequest>>)

\* a request without a protocol, and text that is no log entry
NoProtocolLine == CombinedLogFormat(FormatTime(ExampleDate), "GET /old")

JunkLine == "-- log rotated --"

Texts ==
    WellFormedLines \cup {FarLine} \cup BadTimeLines
      \cup {NoTimeLine, TraceLine, NoProtocolLine, JunkLine, "", "\r"}

\* bufio.MaxScanTokenSize, the buffer of the scanner of line 67
MaxScanTokenSize == 64 * 1024

Lines ==
    { [text |-> t, more |-> 0] : t \in Texts }
      \cup { [text |-> JunkLine, more |-> MaxScanTokenSize] }

MaxLines == 2

RECURSIVE SeqsUpTo(_, _)
SeqsUpTo(S, n) ==
    IF n = 0 THEN { <<>> }
    ELSE LET shorter == SeqsUpTo(S, n - 1)
         IN shorter \cup { Append(q, x) : q \in shorter, x \in S }

(***************************************************************************)
(* State                                                                   *)
(***************************************************************************)
VARIABLES
    input,           \* the lines of the input file
    pos,             \* lines the scanner has returned so far
    processedCount,  \* processLogs' counter
    out,             \* the segments written to w, each by one Fprintf
    pc,              \* "loop": at the head of the scanner loop; "returned"
    err,             \* the error processLogs returned, "" for nil
    idErrors,        \* the lines (by number) whose rand.Read failed
    run,             \* 1, or 2 once the program was started again
    first            \* what the first run returned and wrote

vars == <<input, pos, processedCount, out, pc, err, idErrors, run, first>>

gorPayloadDelimiter == "<U+1F435><U+1F648><U+1F649>"

NoError == ""

NoRun == [count |-> 0, out |-> <<>>, idErrors |-> {}]

Init ==
    /\ input \in SeqsUpTo(Lines, MaxLines)
    /\ pos = 0
    /\ processedCount = 0
    /\ out = <<>>
    /\ pc = "loop"
    /\ err = NoError
    /\ idErrors = {}
    /\ run = 1
    /\ first = NoRun

(***************************************************************************)
(* The scanner, src/log-to-gor.go:67-73                                    *)
(***************************************************************************)
HasNext == pc = "loop" /\ pos < Len(input)

Cur == input[pos + 1]

\* a line that fills the buffer before its newline is found
TooLong(l) == Len(l.text) + l.more >= MaxScanTokenSize

\* bufio.ScanLines drops one trailing \r
dropCR(data) ==
    IF Len(data) > 0 /\ Ch(data, Len(data)) = "\r"
    THEN SubSeq(data, 1, Len(data) - 1)
    ELSE data

\* scanner.Scan() returned true
Scanned == HasNext /\ ~TooLong(Cur)

\* scanner.Text()
ScanText == dropCR(Cur.text)

(***************************************************************************)
(* The body of the loop, src/log-to-gor.go:75-125                          *)
(***************************************************************************)
\* A faulty variant, for C1: the whole match, quotes included, is taken as
\* the request line.
requestLineWhole(line) == requestRe(line)[1]

\* lines 89-91
requestLine(line) ==
    LET matches == requestRe(line)
    IN matches[2] \o " " \o matches[3] \o " " \o matches[4]

\* lines 85 and 96-103
timestamp(line) ==
    LET timeMatch == timeRe(line)
    IN IF Len(timeMatch) = 2
       THEN LET t == timeParse(timeMatch[2])
            IN IF t.ok THEN UnixNano(t) ELSE Int64Zero
       ELSE Int64Zero

\* A faulty variant, for C2: a line whose timestamp does not match or does
\* not parse is skipped as well.
ExtractedWithTime(line) ==
    /\ line # ""
    /\ ApacheCLFMatched(line)
    /\ Len(requestRe(line)) = 4
    /\ Len(timeRe(line)) = 2
    /\ timeParse(timeRe(line)[2]).ok

\* the line passes lines 75-94 and reaches generateRequestID
Extracted(line) ==
    /\ line # ""
    /\ ApacheCLFMatched(line)
    /\ Len(requestRe(line)) = 4

\* A faulty variant, for C8: latency and timestamp in each other's place.
HeaderSegmentSwapped(reqID, ts) ==
    "1" \o " " \o reqID \o " " \o "0" \o " " \o FormatInt64(ts) \o "\n"

\* line 113: "%s %s %d %d\n" of reqType, reqID, timestamp, latency
HeaderSegment(reqID, ts) ==
    "1" \o " " \o reqID \o " " \o FormatInt64(ts) \o " " \o "0" \o "\n"

\* line 117
RequestSegment(rl) == rl \o "\r\n\r\n\n"

\* line 121
DelimiterSegment == gorPayloadDelimiter \o "\n"

\* the error of a failed io.Writer.Write or io.Reader.Read
IOError == "input/output error"

ErrTooLong == "bufio.Scanner: token too long"

\* Lines 75-103 compute the same from equal lines: they are evaluated once
\* for each text the scanner can return, and looked up in the steps below.
PerLine ==
    [ t \in { dropCR(x) : x \in Texts } |->
        [ matched     |-> ApacheCLFMatched(t),
          extracted   |-> Extracted(t),
          requestLine |-> IF Extracted(t) THEN requestLine(t) ELSE "",
          timestamp   |-> IF Extracted(t) THEN timestamp(t) ELSE Int64Zero ] ]

\* lines 71-73: an empty line
SkipEmpty ==
    /\ Scanned
    /\ ScanText = ""
    /\ pos' = pos + 1
    /\ UNCHANGED <<input, processedCount, out, pc, err, idErrors, run, first>>

\* lines 75-79: the parser does not match the line
SkipMalformed ==
    /\ Scanned
    /\ ScanText # ""
    /\ ~PerLine[ScanText].matched
    /\ pos' = pos + 1
    /\ UNCHANGED <<input, processedCount, out, pc, err, idErrors, run, first>>

\* lines 88-94: the request-line pattern does not match
SkipNoRequest ==
    /\ Scanned
    /\ ScanText # ""
    /\ PerLine[ScanText].matched
    /\ ~PerLine[ScanText].extracted
    /\ pos' = pos + 1
    /\ UNCHANGED <<input, processedCount, out, pc, err, idErrors, run, first>>

\* A faulty variant, for C6: the error of rand.Read is returned.
SkipIDErrorReturns ==
    /\ Scanned
    /\ PerLine[ScanText].extracted
    /\ pos' = pos + 1
    /\ idErrors' = idErrors \cup {pos + 1}
    /\ pc' = "returned"
    /\ err' = "failed to generate request ID: " \o IOError
    /\ UNCHANGED <<input, processedCount, out, run, first>>

\* lines 105-109: rand.Read fails
SkipIDError ==
    /\ Scanned
    /\ PerLine[ScanText].extracted
    /\ pos' = pos + 1
    /\ idErrors' = idErrors \cup {pos + 1}
    /\ UNCHANGED <<input, processedCount, out, pc, err, run, first>>

\* lines 113-116: the first Fprintf fails
WriteHeaderFails ==
    /\ Scanned
    /\ PerLine[ScanText].extracted
    /\ pos' = pos + 1
    /\ pc' = "returned"
    /\ err' = "failed to write header: " \o IOError
    /\ UNCHANGED <<input, processedCount, out, idErrors, run, first>>

\* A faulty variant, for C4: the error of the second write is reported as
\* the header's.
WriteRequestFailsAsHeader ==
    /\ Scanned
    /\ PerLine[ScanText].extracted
    /\ \E bytes \in RandomBytes :
          out' = out \o << HeaderSegment(generateRequestID(bytes),
                                         PerLine[ScanText].timestamp) >>
    /\ pos' = pos + 1
    /\ pc' = "returned"
    /\ err' = "failed to write header: " \o IOError
    /\ UNCHANGED <<input, processedCount, idErrors, run, first>>

\* lines 113-120: the second Fprintf fails
WriteRequestFails ==
    /\ Scanned
    /\ PerLine[ScanText].extracted
    /\ \E bytes \in RandomBytes :
          out' = out \o << HeaderSegment(generateRequestID(bytes),
                                         PerLine[ScanText].timestamp) >>
    /\ pos' = pos + 1
    /\ pc' = "returned"
    /\ err' = "failed to write request line: " \o IOError
    /\ UNCHANGED <<input, processedCount, idErrors, run, first>>

\* A faulty variant, for C10: the record is counted before its delimiter is
\* written.
WriteDelimiterFailsCounted ==
    /\ Scanned
    /\ PerLine[ScanText].extracted
    /\ \E bytes \in RandomBytes :
          out' = out \o << HeaderSegment(generateRequestID(bytes),
                                         PerLine[ScanText].timestamp),
                           RequestSegment(PerLine[ScanText].requestLine) >>
    /\ processedCount' = processedCount + 1
    /\ pos' = pos + 1
    /\ pc' = "returned"
    /\ err' = "failed to write delimiter: " \o IOError
    /\ UNCHANGED <<input, idErrors, run, first>>

\* lines 113-124: the third Fprintf fails
WriteDelimiterFails ==
    /\ Scanned
    /\ PerLine[ScanText].extracted
    /\ \E bytes \in RandomBytes :
          out' = out \o << HeaderSegment(generateRequestID(bytes),
                                         PerLine[ScanText].timestamp),
                           RequestSegment(PerLine[ScanText].requestLine) >>
    /\ pos' = pos + 1
    /\ pc' = "returned"
    /\ err' = "failed to write delimiter: " \o IOError
    /\ UNCHANGED <<input, processedCount, idErrors, run, first>>

\* lines 75-125 without a failure: one record, one more converted
Convert ==
    /\ Scanned
    /\ PerLine[ScanText].extracted
    /\ \E bytes \in RandomBytes :
          out' = out \o << HeaderSegment(generateRequestID(bytes),
                                         PerLine[ScanText].timestamp),
                           RequestSegment(PerLine[ScanText].requestLine),
                           DelimiterSegment >>
    /\ processedCount' = processedCount + 1
    /\ pos' = pos + 1
    /\ UNCHANGED <<input, pc, err, idErrors, run, first>>

\* lines 69 and 127-129: Scan stops on a line beyond the buffer
TokenTooLong ==
    /\ HasNext
    /\ TooLong(Cur)
    /\ pc' = "returned"
    /\ err' = "error reading input file: " \o ErrTooLong
    /\ UNCHANGED <<input, pos, processedCount, out, idErrors, run, first>>

\* lines 69 and 127-129: Scan stops on a failed read of r
ReadFails ==
    /\ pc = "loop"
    /\ pc' = "returned"
    /\ err' = "error reading input file: " \o IOError
    /\ UNCHANGED <<input, pos, processedCount, out, idErrors, run, first>>

\* lines 69 and 127-130: the input is exhausted
EndOfInput ==
    /\ pc = "loop"
    /\ pos = Len(input)
    /\ pc' = "returned"
    /\ err' = NoError
    /\ UNCHANGED <<input, pos, processedCount, out, idErrors, run, first>>

Next ==
    \/ SkipEmpty
    \/ SkipMalformed
    \/ SkipNoRequest
    \/ SkipIDError
    \/ WriteHeaderFails
    \/ WriteRequestFails
    \/ WriteDelimiterFails
    \/ Convert
    \/ TokenTooLong
    \/ ReadFails
    \/ EndOfInput

Spec == Init /\ [][Next]_vars

(***************************************************************************)
(* The program run a second time on the same input file, src/log-to-gor.go *)
(* 24-63: os.Create truncates the output, processLogs starts afresh.       *)
(***************************************************************************)
\* A faulty variant, for C9: the output file is opened for appending.
RerunAppend ==
    /\ pc = "returned"
    /\ err = NoError
    /\ run = 1
    /\ run' = 2
    /\ first' = [count |-> processedCount, out |-> out, idErrors |-> idErrors]
    /\ pos' = 0
    /\ processedCount' = 0
    /\ pc' = "loop"
    /\ idErrors' = {}
    /\ UNCHANGED <<input, err, out>>

Rerun ==
    /\ pc = "returned"
    /\ err = NoError
    /\ run = 1
    /\ run' = 2
    /\ first' = [count |-> processedCount, out |-> out, idErrors |-> idErrors]
    /\ pos' = 0
    /\ processedCount' = 0
    /\ out' = <<>>
    /\ pc' = "loop"
    /\ idErrors' = {}
    /\ UNCHANGED <<input, err>>

NextRerun == Next \/ Rerun

SpecRerun == Init /\ [][NextRerun]_vars

(***************************************************************************)
(* Properties.  They read the output as text: a header is "1", a 24-digit  *)
(* lower-case hexadecimal identifier, a decimal integer and "0", separated *)
(* by single spaces and ended by a newline.                                *)
(***************************************************************************)
HexChars == DigitChars \cup {"a", "b", "c", "d", "e", "f"}

IsDecimal(t) ==
    LET from == IF Len(t) > 0 /\ Ch(t, 1) = "-" THEN 2 ELSE 1
    IN /\ Len(t) >= from
       /\ \A i \in from..Len(t) : Ch(t, i) \in DigitChars

\* the timestampNanos field of a header
TsField(h) == SubSeq(h, 28, Len(h) - 3)

IsHeader(h) ==
    /\ Len(h) >= 31
    /\ SubSeq(h, 1, 2) = "1 "
    /\ \A i \in 3..26 : Ch(h, i) \in HexChars
    /\ Ch(h, 27) = " "
    /\ SubSeq(h, Len(h) - 2, Len(h)) = " 0\n"
    /\ IsDecimal(TsField(h))

DelimiterText == "<U+1F435><U+1F648><U+1F649>\n"

\* the request-line segment expected for a request <<method, path, protocol>>
ExpectedRequest(r) == r[1] \o " " \o r[2] \o " " \o r[3] \o "\r\n\r\n\n"

IsWriteError(e) ==
    e \in { "failed to write header: input/output error",
            "failed to write request line: input/output error",
            "failed to write delimiter: input/output error" }

\* this step reads the line with text t, and neither the generation of
\* its identifier nor a write fails in it
ReadsCleanly(t) ==
    /\ pc = "loop"
    /\ pos < Len(input)
    /\ input[pos + 1] = [text |-> t, more |-> 0]
    /\ pos' = pos + 1
    /\ err' = NoError
    /\ idErrors' = idErrors

\* this step appends exactly one record, which carries the request r
EmitsRecordFor(r) ==
    /\ processedCount' = processedCount + 1
    /\ Len(out') = Len(out) + 3
    /\ SubSeq(out', 1, Len(out)) = out
    /\ IsHeader(out'[Len(out) + 1])
    /\ out'[Len(out) + 2] = ExpectedRequest(r)
    /\ out'[Len(out) + 3] = DelimiterText

EntryLines == [ e \in WellFormedEntries \cup {<<FarDate, GetRequest>>} |-> LineOf(e) ]

\* C1: a well-formed entry (valid date, request line with a method of the
\* pattern) that is read without a failure adds exactly one to the count and
\* exactly one record, whose second segment is the entry's method, path and
\* protocol followed by \r\n\r\n\n.
C1_WellFormedConverted ==
    [][ \A e \in DOMAIN EntryLines :
          ReadsCleanly(EntryLines[e]) => EmitsRecordFor(e[2]) ]_vars

C1_Witness ==
    /\ Len(input) = 2
    /\ pos = 2
    /\ input[2].text =
         "127.0.0.1 - - [01/Oct/2025:12:30:11 +0000] \"GET /api/v1/users HTTP/1.1\" 200 512 \"-\" \"curl/8.0\""
    /\ processedCount = 2
    /\ Len(out) = 6
    /\ out[5] = "GET /api/v1/users HTTP/1.1\r\n\r\n\n"

BadTimeRequests ==
    [ t \in BadTimeLines |->
        IF t = CombinedLogFormat(OddTime, RequestField(PostRequest))
        THEN PostRequest ELSE GetRequest ]

SkipsLine ==
    /\ out' = out
    /\ processedCount' = processedCount
    /\ err' = NoError
    /\ pc' = "loop"

HasQuotedRequest(t) ==
    \E i \in 1..Len(t) :
       /\ Ch(t, i) = "\""
       /\ \E m \in {"GET", "POST", "PUT", "DELETE", "HEAD", "OPTIONS", "PATCH"} :
             /\ HasPrefixAt(t, i + 1, m \o " ")
             /\ \E j \in (i + Len(m) + 3)..Len(t), k \in (i + Len(m) + 5)..Len(t) :
                   /\ k > j + 1
                   /\ Ch(t, j) = " "
                   /\ Ch(t, k) = "\""
                   /\ \A x \in (i + Len(m) + 2)..(j - 1) : Ch(t, x) # " "
                   /\ \A x \in (j + 1)..(k - 1) : Ch(t, x) # "\""

TextsLackingRequest == { t \in Texts : ~HasQuotedRequest(t) }

\* C3: a line the scanner returns that has no quoted "METHOD PATH PROTOCOL"
\* writes nothing, leaves the count, returns no error, and the loop goes on.
C3_NoRequestSkipped ==
    [][ ( /\ pc = "loop"
          /\ pos < Len(input)
          /\ pos' = pos + 1
          /\ input[pos + 1].text \in TextsLackingRequest ) => SkipsLine ]_vars

C3_Witness ==
    /\ Len(input) = 2
    /\ pos = 2
    /\ input[1].text = TraceLine
    /\ input[2].text \in WellFormedLines
    /\ processedCount = 1
    /\ Len(out) = 3

\* C4: a failed write ends the conversion: the step returns the count as it
\* was, with the segments written before the failing one and an error that
\* names the failing segment, and nothing is read or written after it.
C4_WriteFailureAborts ==
    [][ /\ (err = NoError /\ IsWriteError(err')) =>
              /\ pc' = "returned"
              /\ processedCount' = processedCount
              /\ Len(out') - Len(out) \in 0..2
              /\ SubSeq(out', 1, Len(out)) = out
              /\ err' = << "failed to write header: input/output error",
                           "failed to write request line: input/output error",
                           "failed to write delimiter: input/output error"
                        >>[Len(out') - Len(out) + 1]
        /\ IsWriteError(err) => UNCHANGED vars ]_vars

C4_Witness ==
    /\ pc = "returned"
    /\ err = "failed to write delimiter: input/output error"
    /\ Len(input) = 2
    /\ pos = 1
    /\ processedCount = 0
    /\ Len(out) = 2

\* C5 as stated: processLogs returns an error only when a read of the input
\* or a write of the output failed.
C5_Stated ==
    (pc = "returned" /\ err # NoError) =>
        \/ IsWriteError(err)
        \/ err = "error reading input file: input/output error"

\* C6: when the generation of the identifier fails, the line is skipped:
\* nothing is written, the count stays, no error is returned and the loop
\* goes on with the next line.
C6_IDFailureSkips ==
    [][ (idErrors' # idErrors /\ run' = run) =>
           (SkipsLine /\ pos' = pos + 1) ]_vars

C6_Witness ==
    /\ Len(input) = 2
    /\ pos = 2
    /\ idErrors = {1}
    /\ input[2].text \in WellFormedLines
    /\ processedCount = 1
    /\ Len(out) = 3

\* nanoseconds from 1970-01-01T00:00:00 to the date and time of day of a
\* date of the input, read as UTC, whatever its offset
NanosSinceEpoch(t) ==
    LET when == <<t.y, t.mon, t.d, t.h, t.mi, t.s>>
    IN CASE when = <<2025, "Oct", 1, 12, 30, 11>> -> "1759321811000000000"
         [] when = <<2025, "Oct", 2, 12, 50, 11>> -> "1759409411000000000"
         [] when = <<2024, "Feb", 29, 23, 59, 59>> -> "1709251199000000000"
         [] when = <<2300, "Jan", 1, 0, 0, 0>> -> "10413792000000000000"

\* C7 as stated: the timestampNanos of a record is the date and time of day
\* of the entry's bracketed timestamp, read as UTC whatever the offset, in
\* nanoseconds since the Unix epoch.
C7_Stated ==
    (processedCount = pos /\ Len(out) = 3 * pos) =>
        \A k \in 1..pos : \A e \in DOMAIN EntryLines :
            input[k].text = EntryLines[e] =>
                TsField(out[3 * k - 2]) = NanosSinceEpoch(e[1])

\* the request of each text that is to be converted, <<>> for the others
RequestOfText ==
    [ t \in Texts |->
        IF \E e \in DOMAIN EntryLines : EntryLines[e] = t
        THEN (CHOOSE e \in DOMAIN EntryLines : EntryLines[e] = t)[2]
        ELSE IF t \in BadTimeLines THEN BadTimeRequests[t]
        ELSE <<>> ]

\* the numbers of the lines among the first n that are converted, in order
RECURSIVE ConvertedUpTo(_)
ConvertedUpTo(n) ==
    IF n = 0 THEN <<>>
    ELSE IF /\ input[n].more = 0
            /\ RequestOfText[input[n].text] # <<>>
            /\ n \notin idErrors
         THEN Append(ConvertedUpTo(n - 1), n)
         ELSE ConvertedUpTo(n - 1)

\* C8: while no write has failed, the output is the records of the converted
\* lines read so far, in the order of the lines, each a header with latency
\* 0, the line's request segment and the delimiter with a newline; blank and
\* skipped lines add nothing, and the count is the number of records.
C8_RecordsInInputOrder ==
    ~IsWriteError(err) =>
        LET c == ConvertedUpTo(pos)
        IN /\ processedCount = Len(c)
           /\ Len(out) = 3 * Len(c)
           /\ \A k \in 1..Len(c) :
                 /\ IsHeader(out[3 * k - 2])
                 /\ out[3 * k - 1] =
                       ExpectedRequest(RequestOfText[input[c[k]].text])
                 /\ out[3 * k] = DelimiterText

C8_Witness ==
    /\ Len(input) = 2
    /\ pc = "returned"
    /\ err = NoError
    /\ input[1].text = ""
    /\ input[2].text \in WellFormedLines
    /\ processedCount = 1
    /\ Len(out) = 3

EndsRequest(seg) ==
    /\ Len(seg) > 5
    /\ SubSeq(seg, Len(seg) - 4, Len(seg)) = "\r\n\r\n\n"

====
